---- MODULE Spec2Model ----
(***************************************************************************)
(* A model of the pathname router of src/src/index.ts (the generic        *)
(* version, lines 304-627): parse, createMatch, buildRoutes, addToTrie,    *)
(* the trie Node and the lazy match enumerator returned by createRouter.   *)
(*                                                                         *)
(* A JavaScript string is modelled as the sequence of its UTF-16 code      *)
(* units, each written as a one-character TLA+ string: "a[x]" is           *)
(* <<"a", "[", "x", "]">>.  JavaScript indices are 0-based; the operators  *)
(* below keep the 0-based numbers of the source and add 1 when they index  *)
(* a TLA+ sequence.                                                        *)
(***************************************************************************)
EXTENDS Integers, Sequences, FiniteSets, TLC

VARIABLES
    arg,      \* the argument of a call of parse / createMatch / buildRoutes
    ret,      \* what that call returned (Pending before the call)
    inputs,   \* createRouter's `inputs`, as an array of route strings
    pc,       \* "init", "built" (a router was returned) or "failed" (it threw)
    error,    \* the TypeError createRouter threw, NoError otherwise
    routes,   \* createRouter's `routes`: the output of buildRoutes
    trie,     \* the heap of trie Nodes; trie[1] is `root`
    cache,    \* createRouter's `cache`: key -> Match function
    heap,     \* the `values` arrays allocated by calls of match
    enums     \* the generator objects returned by calls of match

vars == <<arg, ret, inputs, pc, error, routes, trie, cache, heap, enums>>

(***************************************************************************)
(* Bounds of the model.                                                    *)
(***************************************************************************)
MaxSegLen == 5      \* longest segment string given to parse
MaxInputLen == 5    \* longest pathname segment given to a Matcher
MaxRoutes == 3      \* most routes given to createRouter / buildRoutes
MaxEnums == 2       \* most enumerations alive at once

(***************************************************************************)
(* Strings.                                                                *)
(***************************************************************************)
Letters == {"a", "b", "c", "x", "y", "z"}

\* The characters the model draws segments from: letters, a punctuation
\* character and the two brackets.
Alphabet == {"a", "x", "@", "[", "]"}

\* The UTF-16 code unit of a character, which JavaScript's string comparison uses.
CharCode(c) ==
    CASE c = "/" -> 47
      [] c = "@" -> 64
      [] c = "[" -> 91
      [] c = "]" -> 93
      [] c = "a" -> 97
      [] c = "b" -> 98
      [] c = "c" -> 99
      [] c = "x" -> 120
      [] c = "y" -> 121
      [] c = "z" -> 122
      [] c = "|" -> 124

Strings(alphabet, n) == UNION {[1..k -> alphabet] : k \in 0..n}

Min(a, b) == IF a < b THEN a ELSE b
Max(a, b) == IF a < b THEN b ELSE a

\* s.slice(from, to), 0-based, `to` exclusive and clamped to the length.
Slice(s, from, to) == SubSeq(s, from + 1, Min(to, Len(s)))

\* s.slice(from)
SliceFrom(s, from) == SubSeq(s, from + 1, Len(s))

\* s.indexOf(sub, from): the least index >= from where sub occurs, or -1.
IndexOf(s, sub, from) ==
    LET hits == {k \in from..(Len(s) - Len(sub)) : Slice(s, k, k + Len(sub)) = sub}
    IN  IF hits = {} THEN -1 ELSE CHOOSE k \in hits : \A h \in hits : k <= h

\* a > b on JavaScript strings: lexicographic by code unit, a proper prefix is less.
RECURSIVE StrGreater(_, _)
StrGreater(a, b) ==
    IF a = <<>> THEN FALSE
    ELSE IF b = <<>> THEN TRUE
    ELSE IF Head(a) # Head(b) THEN CharCode(Head(a)) > CharCode(Head(b))
    ELSE StrGreater(Tail(a), Tail(b))

\* s.split(sep) for a one-character separator; "".split("/") is [""].
RECURSIVE SplitFrom(_, _, _, _)
SplitFrom(s, sep, i, cur) ==
    IF i > Len(s) THEN <<cur>>
    ELSE IF s[i] = sep THEN <<cur>> \o SplitFrom(s, sep, i + 1, <<>>)
    ELSE SplitFrom(s, sep, i + 1, Append(cur, s[i]))

Split(s, sep) == SplitFrom(s, sep, 1, <<>>)

\* parts.join(sep)
RECURSIVE Join(_, _)
Join(parts, sep) ==
    IF parts = <<>> THEN <<>>
    ELSE IF Len(parts) = 1 THEN parts[1]
    ELSE parts[1] \o sep \o Join(Tail(parts), sep)

\* The concatenation of a sequence of sequences.
RECURSIVE Flatten(_)
Flatten(ss) == IF ss = <<>> THEN <<>> ELSE Head(ss) \o Flatten(Tail(ss))

Last(s) == s[Len(s)]

(***************************************************************************)
(* parse: a segment string to a Path, a list of tokens.  A token is a      *)
(* string (typeof "string") or a Parameter {name} (typeof "object").       *)
(***************************************************************************)
StringPart(text) == [type |-> "string", text |-> text]
Parameter(name) == [type |-> "object", text |-> name]

\* /[\p{L}\p{N}]/u.test(char), on the characters of the model.
IsNameChar(char) == char \in Letters

ParseOk(path) == [ok |-> TRUE, path |-> path, msg |-> "", at |-> 0]
ParseError(msg, i) == [ok |-> FALSE, path |-> <<>>, msg |-> msg, at |-> i]

\* The inner loop `while (i++ < length)`, entered with i already incremented:
\* it ends with the name and the index after "]", or throws.
RECURSIVE ParseName(_, _, _)
ParseName(route, i, name) ==
    IF i < Len(route) /\ route[i + 1] = "]" THEN
        IF name = <<>>
        THEN ParseError("Missing parameter name", i)
        ELSE [ok |-> TRUE, path |-> name, msg |-> "", at |-> i + 1]
    ELSE IF i = Len(route) THEN
        ParseError("Missing parameter name close character", i)
    ELSE IF ~IsNameChar(route[i + 1]) THEN
        ParseError("Invalid name character", i)
    ELSE ParseName(route, i + 1, Append(name, route[i + 1]))

\* The outer loop `while (i < length)` from index i with the tokens so far.
RECURSIVE ParseLoop(_, _, _)
ParseLoop(route, i, path) ==
    IF i >= Len(route) THEN ParseOk(path)
    ELSE IF route[i + 1] = "[" THEN
        IF path # <<>> /\ Last(path).type = "object"
        THEN ParseError("A parameter must not immediately follow another paramter", i)
        ELSE LET r == ParseName(route, i + 1, <<>>)
             IN  IF ~r.ok THEN r
                 ELSE ParseLoop(route, r.at, Append(path, Parameter(r.path)))
    ELSE IF path = <<>> \/ Last(path).type # "string"
         THEN ParseLoop(route, i + 1, Append(path, StringPart(<<route[i + 1]>>)))
         ELSE ParseLoop(route, i + 1,
                  [path EXCEPT ![Len(path)] =
                      StringPart(Last(path).text \o <<route[i + 1]>>)])

\* A parser that keeps only the last character of a literal: a variant of
\* ParseLoop with `path[path.length - 1] = char` in place of `+= char`.
RECURSIVE ParseLoopAssign(_, _, _)
ParseLoopAssign(route, i, path) ==
    IF i >= Len(route) THEN ParseOk(path)
    ELSE IF route[i + 1] = "[" THEN
        IF path # <<>> /\ Last(path).type = "object"
        THEN ParseError("A parameter must not immediately follow another paramter", i)
        ELSE LET r == ParseName(route, i + 1, <<>>)
             IN  IF ~r.ok THEN r
                 ELSE ParseLoopAssign(route, r.at, Append(path, Parameter(r.path)))
    ELSE IF path = <<>> \/ Last(path).type # "string"
         THEN ParseLoopAssign(route, i + 1, Append(path, StringPart(<<route[i + 1]>>)))
         ELSE ParseLoopAssign(route, i + 1,
                  [path EXCEPT ![Len(path)] = StringPart(<<route[i + 1]>>)])

parseAssign(route) == ParseLoopAssign(route, 0, <<>>)

parse(route) == ParseLoop(route, 0, <<>>)

(***************************************************************************)
(* createMatch: the Match function of a Path, applied to a pathname        *)
(* segment.  It returns the captured values, or false.                     *)
(***************************************************************************)
MatchOk(params) == [ok |-> TRUE, params |-> params]
MatchFalse == [ok |-> FALSE, params |-> <<>>]

\* The loop `while (i < length)` of the returned function.
RECURSIVE MatchLoop(_, _, _, _, _)
MatchLoop(path, pathname, i, offset, params) ==
    IF i >= Len(path) THEN MatchOk(params)
    ELSE IF Len(pathname) = offset THEN MatchFalse
    ELSE LET part == path[i + 1] IN
        IF part.type = "string" THEN
            IF Slice(pathname, offset, offset + Len(part.text)) # part.text
            THEN MatchFalse
            ELSE MatchLoop(path, pathname, i + 1, offset + Len(part.text), params)
        ELSE IF i + 1 >= Len(path) THEN
            MatchOk(Append(params, SliceFrom(pathname, offset)))
        ELSE LET next == path[i + 2].text
                 index == IndexOf(pathname, next, offset)
             IN  IF index = -1 \/ index = offset THEN MatchFalse
                 ELSE MatchLoop(path, pathname, i + 2, index + Len(next),
                          Append(params, Slice(pathname, offset, index)))

\* A Matcher that does not stop at the end of the input: a variant of MatchLoop
\* without `if (pathname.length === offset) return false`.
RECURSIVE MatchLoopPastEnd(_, _, _, _, _)
MatchLoopPastEnd(path, pathname, i, offset, params) ==
    IF i >= Len(path) THEN MatchOk(params)
    ELSE LET part == path[i + 1] IN
        IF part.type = "string" THEN
            IF Slice(pathname, offset, offset + Len(part.text)) # part.text
            THEN MatchFalse
            ELSE MatchLoopPastEnd(path, pathname, i + 1, offset + Len(part.text), params)
        ELSE IF i + 1 >= Len(path) THEN
            MatchOk(Append(params, SliceFrom(pathname, offset)))
        ELSE LET next == path[i + 2].text
                 index == IndexOf(pathname, next, offset)
             IN  IF index = -1 \/ index = offset THEN MatchFalse
                 ELSE MatchLoopPastEnd(path, pathname, i + 2, index + Len(next),
                          Append(params, Slice(pathname, offset, index)))

createMatchPastEnd(path, pathname) ==
    IF Len(path) = 0
    THEN (IF pathname = <<>> THEN MatchOk(<<>>) ELSE MatchFalse)
    ELSE MatchLoopPastEnd(path, pathname, 0, 0, <<>>)

createMatch(path, pathname) ==
    IF Len(path) = 0
    THEN (IF pathname = <<>> THEN MatchOk(<<>>) ELSE MatchFalse)
    ELSE MatchLoop(path, pathname, 0, 0, <<>>)

(***************************************************************************)
(* buildRoutes: parse every route and sort the routes.                     *)
(***************************************************************************)
\* typeof path[j]: "undefined" past the end of the array.
TypeOf(path, j) == IF j < Len(path) THEN path[j + 1].type ELSE "undefined"

\* The inner loop `for (j ...)` over the tokens of one segment pair, from j:
\* the number the comparator returns there, or 0 when the loop ends.
RECURSIVE CompareParts(_, _, _)
CompareParts(pathsA, pathsB, j) ==
    IF j >= Max(Len(pathsA), Len(pathsB)) THEN 0
    ELSE LET typeofA == TypeOf(pathsA, j)
             typeofB == TypeOf(pathsB, j)
         IN  IF typeofA # typeofB THEN
                 (IF typeofA = "string" THEN -1
                  ELSE IF typeofB = "object" THEN -1 ELSE 1)
             ELSE IF typeofA = "string" /\ pathsA[j + 1].text # pathsB[j + 1].text THEN
                 (IF StrGreater(pathsA[j + 1].text, pathsB[j + 1].text) THEN 1 ELSE -1)
             ELSE CompareParts(pathsA, pathsB, j + 1)

\* The outer loop `for (i ...)` over the segments, from i.
RECURSIVE CompareSegments(_, _, _)
CompareSegments(a, b, i) ==
    IF i >= Len(a) THEN 0
    ELSE LET c == CompareParts(a[i + 1], b[i + 1], 0)
         IN  IF c # 0 THEN c ELSE CompareSegments(a, b, i + 1)

\* A comparator that stops after the segment count.
compareLengthOnly(a, b) == Len(a) - Len(b)

\* The comparator given to sort, on the Path[] of two routes.
compare(a, b) ==
    IF Len(a) # Len(b) THEN Len(a) - Len(b) ELSE CompareSegments(a, b, 0)

\* An insertion that puts x before the elements it compares equal to.
RECURSIVE InsertBeforeEqual(_, _)
InsertBeforeEqual(sorted, x) ==
    IF sorted = <<>> THEN <<x>>
    ELSE IF compare(Last(sorted).paths, x.paths) >= 0
         THEN Append(InsertBeforeEqual(SubSeq(sorted, 1, Len(sorted) - 1), x), Last(sorted))
         ELSE Append(sorted, x)

\* Array.prototype.sort is stable: x goes after every element that does not
\* compare greater than it.
RECURSIVE Insert(_, _)
Insert(sorted, x) ==
    IF sorted = <<>> THEN <<x>>
    ELSE IF compare(Last(sorted).paths, x.paths) > 0
         THEN Append(Insert(SubSeq(sorted, 1, Len(sorted) - 1), x), Last(sorted))
         ELSE Append(sorted, x)

RECURSIVE Sort(_)
Sort(entries) ==
    IF entries = <<>> THEN <<>>
    ELSE Insert(Sort(SubSeq(entries, 1, Len(entries) - 1)), Last(entries))

\* route.split("/").map((x) => parse(x)): the parse results of the segments.
ParseRoute(route) == LET segs == Split(route, "/") IN [k \in 1..Len(segs) |-> parse(segs[k])]

\* The first parse error of a route, in segment order.
FirstError(parsed) ==
    LET bad == {k \in 1..Len(parsed) : ~parsed[k].ok}
    IN  parsed[CHOOSE k \in bad : \A h \in bad : k <= h]

RouteOk(route) == \A k \in 1..Len(ParseRoute(route)) : ParseRoute(route)[k].ok

RouteEntry(route) ==
    LET parsed == ParseRoute(route)
    IN  [route |-> route, paths |-> [k \in 1..Len(parsed) |-> parsed[k].path]]

\* buildRoutes(inputs): the sorted [route, Path[]] pairs, or the error parse threw
\* on the first route that does not parse.
buildRoutes(inp) ==
    LET bad == {k \in 1..Len(inp) : ~RouteOk(inp[k])}
    IN  IF bad # {}
        THEN [ok |-> FALSE, routes |-> <<>>,
              error |-> FirstError(ParseRoute(inp[CHOOSE k \in bad : \A h \in bad : k <= h]))]
        ELSE [ok |-> TRUE, routes |-> Sort([k \in 1..Len(inp) |-> RouteEntry(inp[k])]),
              error |-> ParseOk(<<>>)]

(***************************************************************************)
(* The trie.  A Node is a record; the nodes live in a sequence and refer   *)
(* to each other by index.  A Match function is modelled by the Path its   *)
(* closure captured: the cache holds one function per key, so two          *)
(* functions of one router are the same object exactly when their Paths    *)
(* are equal.                                                              *)
(***************************************************************************)
\* `undefined` in a field that holds a string, and in one that holds a string[].
Undefined == <<"undefined">>
UndefinedKeys == <<Undefined>>

NewNode == [route |-> Undefined, keys |-> UndefinedKeys, static |-> <<>>, dynamic |-> <<>>]

\* Map.get on the static map of a node: the child, or 0 for undefined.
StaticGet(node, value) ==
    LET hits == {k \in 1..Len(node.static) : node.static[k].key = value}
    IN  IF hits = {} THEN 0 ELSE node.static[CHOOSE k \in hits : TRUE].child

\* Map.get on the dynamic map of a node, by the identity of the function.
DynamicGet(node, fn) ==
    LET hits == {k \in 1..Len(node.dynamic) : node.dynamic[k].key = fn}
    IN  IF hits = {} THEN 0 ELSE node.dynamic[CHOOSE k \in hits : TRUE].child

\* Node.addStatic on node n of the heap: the heap afterwards and the child.
addStatic(nodes, n, value) ==
    LET existing == StaticGet(nodes[n], value)
    IN  IF existing # 0 THEN [nodes |-> nodes, child |-> existing]
        ELSE [nodes |-> Append([nodes EXCEPT ![n].static =
                                   Append(@, [key |-> value, child |-> Len(nodes) + 1])],
                               NewNode),
              child |-> Len(nodes) + 1]

\* Node.addDynamic
addDynamic(nodes, n, fn) ==
    LET existing == DynamicGet(nodes[n], fn)
    IN  IF existing # 0 THEN [nodes |-> nodes, child |-> existing]
        ELSE [nodes |-> Append([nodes EXCEPT ![n].dynamic =
                                   Append(@, [key |-> fn, child |-> Len(nodes) + 1])],
                               NewNode),
              child |-> Len(nodes) + 1]

\* A Node.match that returns after a static hit.
NodeMatchStaticWins(node, value) ==
    LET child == StaticGet(node, value)
        hit(k) == createMatch(node.dynamic[k].key, value)
        RECURSIVE Dyn(_)
        Dyn(k) == IF k > Len(node.dynamic) THEN <<>>
                  ELSE IF ~hit(k).ok THEN Dyn(k + 1)
                  ELSE <<[params |-> hit(k).params, child |-> node.dynamic[k].child]>>
                       \o Dyn(k + 1)
    IN  IF child # 0 THEN <<[params |-> <<>>, child |-> child]>> ELSE Dyn(1)

\* A Node.match that looks at the dynamic children before the static child.
NodeMatchDynamicFirst(node, value) ==
    LET child == StaticGet(node, value)
        hit(k) == createMatch(node.dynamic[k].key, value)
        RECURSIVE Dyn(_)
        Dyn(k) == IF k > Len(node.dynamic) THEN <<>>
                  ELSE IF ~hit(k).ok THEN Dyn(k + 1)
                  ELSE <<[params |-> hit(k).params, child |-> node.dynamic[k].child]>>
                       \o Dyn(k + 1)
    IN  Dyn(1) \o (IF child # 0 THEN <<[params |-> <<>>, child |-> child]>> ELSE <<>>)

\* Node.match(value): the [params, child] pairs the generator yields, in order.
NodeMatch(node, value) ==
    LET child == StaticGet(node, value)
        hit(k) == createMatch(node.dynamic[k].key, value)
        RECURSIVE Dyn(_)
        Dyn(k) == IF k > Len(node.dynamic) THEN <<>>
                  ELSE IF ~hit(k).ok THEN Dyn(k + 1)
                  ELSE <<[params |-> hit(k).params, child |-> node.dynamic[k].child]>>
                       \o Dyn(k + 1)
    IN  (IF child # 0 THEN <<[params |-> <<>>, child |-> child]>> ELSE <<>>) \o Dyn(1)

\* pathToKey(path, params): the cache key ...
pathToKey(path) ==
    Join([k \in 1..Len(path) |->
             IF path[k].type = "string" THEN path[k].text ELSE <<"[", "]">>], <<"|">>)

\* ... and the parameter names it pushes onto params.
PathNames(path) ==
    LET RECURSIVE Names(_)
        Names(k) == IF k > Len(path) THEN <<>>
                    ELSE (IF path[k].type = "object" THEN <<path[k].text>> ELSE <<>>)
                         \o Names(k + 1)
    IN  Names(1)

\* cache.has(key) and cache.get(key) on a key the cache has.
CacheHas(c, key) == \E k \in 1..Len(c) : c[k].key = key
CacheGet(c, key) == c[CHOOSE k \in 1..Len(c) : c[k].key = key].fn

\* cache.set(key, fn)
CacheSet(c, key, fn) ==
    IF CacheHas(c, key)
    THEN [k \in 1..Len(c) |-> IF c[k].key = key THEN [key |-> key, fn |-> fn] ELSE c[k]]
    ELSE Append(c, [key |-> key, fn |-> fn])

\* The loop of addToTrie over the segments from paths[k]: the heap, the cache,
\* the node reached and the parameter names collected.
RECURSIVE Descend(_, _, _, _, _, _)
Descend(nodes, c, paths, k, node, params) ==
    IF k > Len(paths) THEN [nodes |-> nodes, cache |-> c, node |-> node, params |-> params]
    ELSE LET path == paths[k] IN
        IF Len(path) = 0 THEN
            LET r == addStatic(nodes, node, <<>>)
            IN  Descend(r.nodes, c, paths, k + 1, r.child, params)
        ELSE IF Len(path) = 1 /\ path[1].type = "string" THEN
            LET r == addStatic(nodes, node, path[1].text)
            IN  Descend(r.nodes, c, paths, k + 1, r.child, params)
        ELSE
            LET key == pathToKey(path)
                fn == IF CacheHas(c, key) THEN CacheGet(c, key) ELSE path
                r == addDynamic(nodes, node, fn)
            IN  Descend(r.nodes, CacheSet(c, key, fn), paths, k + 1, r.child,
                        params \o PathNames(path))

\* An addToTrie without the check of node.route: a later route overwrites.
addToTrieOverwrite(nodes, paths, route, c) ==
    LET d == Descend(nodes, c, paths, 1, 1, <<>>)
    IN  [nodes |-> [d.nodes EXCEPT ![d.node].route = route, ![d.node].keys = d.params],
         cache |-> d.cache, threw |-> FALSE]

\* addToTrie(root, paths, route, cache): threw tells whether it threw
\* "Route is already defined for ${route}".
addToTrie(nodes, paths, route, c) ==
    LET d == Descend(nodes, c, paths, 1, 1, <<>>)
    IN  IF d.nodes[d.node].route # Undefined
        THEN [nodes |-> d.nodes, cache |-> d.cache, threw |-> TRUE]
        ELSE [nodes |-> [d.nodes EXCEPT ![d.node].route = route, ![d.node].keys = d.params],
              cache |-> d.cache, threw |-> FALSE]

\* The loop `for (const [route, paths] of routes) addToTrie(...)` from routes[k].
RECURSIVE AddRoutes(_, _, _, _)
AddRoutes(nodes, c, rs, k) ==
    IF k > Len(rs) THEN [nodes |-> nodes, cache |-> c, threw |-> FALSE, route |-> <<>>]
    ELSE LET r == addToTrie(nodes, rs[k].paths, rs[k].route, c)
         IN  IF r.threw
             THEN [nodes |-> r.nodes, cache |-> r.cache, threw |-> TRUE, route |-> rs[k].route]
             ELSE AddRoutes(r.nodes, r.cache, rs, k + 1)

(***************************************************************************)
(* The match enumerator: the generator `build`, as an explicit stack of    *)
(* frames.  A frame is one activation of build(node, index, segments,      *)
(* values); `at` is where it is suspended, `pos` how many pairs of         *)
(* node.match(segments[index]) its loop has taken, `length` its local      *)
(* `length`.  Arrays of values are objects of the heap, held by reference: *)
(* the `values` buffer of a call of match, and the copy in each Result.    *)
(* A reference is a pair <<c, n>>: the n-th array allocated on behalf of   *)
(* the c-th call of match; heap[c][n] holds its elements.                  *)
(***************************************************************************)
Frame(node, index) == [node |-> node, index |-> index, at |-> "start", length |-> 0, pos |-> 0]

\* One `values` array for every call of match, as if it were allocated once.
SharedArray(h) == [heap |-> Append(h, <<<<>>>>), ref |-> <<1, 1>>]

\* The array `[]` that match(pathname) allocates for a call of build.
NewArray(h) == [heap |-> Append(h, <<<<>>>>), ref |-> <<Len(h) + 1, 1>>]

\* The elements of the array a reference points to.
Deref(h, ref) == h[ref[1]][ref[2]]

\* values.push(...params)
Push(values, params) == values \o params

\* No reset of `values` after an iteration.
KeepLength(values, length) == values

\* values.length = length
SetLength(values, length) == SubSeq(values, 1, length)

\* values.slice(): a new array with the same elements.
slice(h, ref) ==
    [heap |-> [h EXCEPT ![ref[1]] = Append(@, Deref(h, ref))],
     ref |-> <<ref[1], Len(h[ref[1]]) + 1>>]

\* The Result object yielded at a terminal node; `values` is a reference.
Result(node, values) ==
    [route |-> node.route,
     keys |-> IF node.keys = UndefinedKeys THEN <<>> ELSE node.keys,
     values |-> values]

\* Run the generator e until it yields or returns: the generator and the heap then.
RECURSIVE Run(_, _, _)
Run(nodes, e, h) ==
    IF e.stack = <<>> THEN [enum |-> [e EXCEPT !.done = TRUE], heap |-> h]
    ELSE LET f == Last(e.stack)
             rest == SubSeq(e.stack, 1, Len(e.stack) - 1)
             node == nodes[f.node]
             values == Deref(h, e.values)
         IN
         CASE f.at = "start" ->
                IF f.index = Len(e.segments) THEN
                    IF node.route # Undefined
                    THEN LET copy == slice(h, e.values) IN
                         [enum |-> [e EXCEPT !.stack = Append(rest, [f EXCEPT !.at = "yielded"]),
                                             !.out = Append(@, Result(node, copy.ref))],
                          heap |-> copy.heap]
                    ELSE Run(nodes, [e EXCEPT !.stack = rest], h)
                ELSE Run(nodes,
                         [e EXCEPT !.stack =
                             Append(rest, [f EXCEPT !.at = "loop", !.length = Len(values)])],
                         h)
           [] f.at = "yielded" -> Run(nodes, [e EXCEPT !.stack = rest], h)
           [] f.at = "loop" ->
                LET m == NodeMatch(node, e.segments[f.index + 1]) IN
                IF f.pos >= Len(m) THEN Run(nodes, [e EXCEPT !.stack = rest], h)
                ELSE Run(nodes,
                         [e EXCEPT !.stack =
                             Append(Append(rest, [f EXCEPT !.at = "child", !.pos = @ + 1]),
                                    Frame(m[f.pos + 1].child, f.index + 1))],
                         [h EXCEPT ![e.values[1]][e.values[2]] = Push(@, m[f.pos + 1].params)])
           [] f.at = "child" ->
                Run(nodes,
                    [e EXCEPT !.stack = Append(rest, [f EXCEPT !.at = "loop"])],
                    [h EXCEPT ![e.values[1]][e.values[2]] = SetLength(@, f.length)])

\* The generator object build(root, 0, pathname.split("/"), values) returns.
Generator(pathname, values) ==
    [pathname |-> pathname, segments |-> Split(pathname, "/"), values |-> values,
     stack |-> <<Frame(1, 0)>>, out |-> <<>>, done |-> FALSE, returned |-> FALSE]

\* The Results a consumer holds, as it reads them: each with the elements of its
\* `values` array.
Read(out, h) ==
    [k \in 1..Len(out) |->
        [route |-> out[k].route, keys |-> out[k].keys, values |-> Deref(h, out[k].values)]]

\* Array.from(router(pathname)): one enumeration consumed alone, from start to end.
RECURSIVE Drain(_, _, _)
Drain(nodes, e, h) ==
    IF e.done THEN Read(e.out, h)
    ELSE LET r == Run(nodes, e, h) IN Drain(nodes, r.enum, r.heap)

ArrayFrom(nodes, pathname) ==
    LET a == NewArray(<<>>) IN Drain(nodes, Generator(pathname, a.ref), a.heap)

NoError == [msg |-> "", at |-> 0, route |-> <<>>]

\* createRouter after buildRoutes returned b and the loop of addToTrie ended
\* as t: what it built, and the error it threw if it threw.
Registered(b, t) ==
    [built |-> ~t.threw,
     error |-> IF t.threw
               THEN [msg |-> "Route is already defined for", at |-> 0, route |-> t.route]
               ELSE NoError,
     routes |-> b.routes, nodes |-> t.nodes, cache |-> t.cache]

\* createRouter after buildRoutes returned or threw.
Sorted(b) ==
    IF ~b.ok
    THEN [built |-> FALSE,
          error |-> [msg |-> b.error.msg, at |-> b.error.at, route |-> <<>>],
          routes |-> <<>>, nodes |-> <<NewNode>>, cache |-> <<>>]
    ELSE Registered(b, AddRoutes(<<NewNode>>, <<>>, b.routes, 1))

\* The body of createRouter up to its return.
createRouter(inp) == Sorted(buildRoutes(inp))

(***************************************************************************)
(* The inputs of the model.                                                *)
(***************************************************************************)
Lists(S, n) == UNION {[1..k -> S] : k \in 0..n}

\* Routes given to createRouter: "ab", "a[x]", "[x]", "[y]", "/a", "[x]/[y]",
\* "a[x]/b" and the malformed "[".
RoutePool ==
    { <<"a", "b">>,
      <<"a", "[", "x", "]">>,
      <<"[", "x", "]">>,
      <<"[", "y", "]">>,
      <<"/", "a">>,
      <<"[", "x", "]", "/", "[", "y", "]">>,
      <<"a", "[", "x", "]", "/", "b">>,
      <<"[">> }

\* Pathnames given to the router: "", "a", "ab", "/a", "a/", "ab/a", "ab/b".
PathPool ==
    { <<>>,
      <<"a">>,
      <<"a", "b">>,
      <<"/", "a">>,
      <<"a", "/">>,
      <<"a", "b", "/", "a">>,
      <<"a", "b", "/", "b">> }

Pending == [pending |-> TRUE]

Idle ==
    /\ inputs = <<>>
    /\ pc = "init"
    /\ error = NoError
    /\ routes = <<>>
    /\ trie = <<>>
    /\ cache = <<>>
    /\ heap = <<>>
    /\ enums = <<>>

(***************************************************************************)
(* The router: createRouter, then calls of match and of the iterators.     *)
(***************************************************************************)
Init ==
    /\ arg = [fn |-> "createRouter", consumers |-> 1]
    /\ ret = Pending
    /\ inputs \in Lists(RoutePool, MaxRoutes)
    /\ pc = "init"
    /\ error = NoError
    /\ routes = <<>>
    /\ trie = <<>>
    /\ cache = <<>>
    /\ heap = <<>>
    /\ enums = <<>>

\* createRouter(inputs): it returns the router (built) or throws (error).
CreateRouter ==
    /\ pc = "init"
    /\ \E r \in {createRouter(inputs)} :
           /\ pc' = IF r.built THEN "built" ELSE "failed"
           /\ error' = r.error
           /\ routes' = r.routes
           /\ trie' = r.nodes
           /\ cache' = r.cache
    /\ UNCHANGED <<arg, ret, inputs, heap, enums>>

\* match(pathname): a new generator object; nothing of build has run yet.
Match(pathname) ==
    /\ pc = "built"
    /\ Len(enums) < arg.consumers
    /\ LET a == NewArray(heap)
       IN  /\ heap' = a.heap
           /\ enums' = Append(enums, Generator(pathname, a.ref))
    /\ UNCHANGED <<arg, ret, inputs, pc, error, routes, trie, cache>>

\* iterator.next() on the k-th generator: it runs to its next yield or to its end.
NextResult(k) ==
    /\ k \in 1..Len(enums)
    /\ ~enums[k].done
    /\ LET r == Run(trie, enums[k], heap)
       IN  /\ enums' = [enums EXCEPT ![k] = r.enum]
           /\ heap' = r.heap
    /\ UNCHANGED <<arg, ret, inputs, pc, error, routes, trie, cache>>

\* iterator.return() on the k-th generator (a `break` out of for-of): it is
\* never resumed.
Return(k) ==
    /\ k \in 1..Len(enums)
    /\ ~enums[k].done
    /\ enums' = [enums EXCEPT ![k].done = TRUE, ![k].returned = TRUE, ![k].stack = <<>>]
    /\ UNCHANGED <<arg, ret, inputs, pc, error, routes, trie, cache, heap>>

Next ==
    \/ CreateRouter
    \/ \E pathname \in PathPool : Match(pathname)
    \/ \E k \in 1..MaxEnums : NextResult(k)

Spec == Init /\ [][Next]_vars

(***************************************************************************)
(* One router shared by several enumerations, consumed in any interleaving *)
(* and abandoned at any point.                                             *)
(***************************************************************************)
\* ["ab", "a[x]", "[x]"] and ["[x]/[y]", "a[x]/b", "/a"].
SharedRouters ==
    { << <<"a", "b">>, <<"a", "[", "x", "]">>, <<"[", "x", "]">> >>,
      << <<"[", "x", "]", "/", "[", "y", "]">>, <<"a", "[", "x", "]", "/", "b">>,
         <<"/", "a">> >> }

InitShared ==
    /\ arg = [fn |-> "createRouter", consumers |-> MaxEnums]
    /\ ret = Pending
    /\ inputs \in SharedRouters
    /\ pc = "init"
    /\ error = NoError
    /\ routes = <<>>
    /\ trie = <<>>
    /\ cache = <<>>
    /\ heap = <<>>
    /\ enums = <<>>

NextShared ==
    \/ CreateRouter
    \/ \E pathname \in PathPool : Match(pathname)
    \/ \E k \in 1..MaxEnums : NextResult(k)
    \/ \E k \in 1..MaxEnums : Return(k)

SpecShared == InitShared /\ [][NextShared]_vars

(***************************************************************************)
(* Routers of two segments with static and dynamic children at both        *)
(* depths, each enumeration consumed by one consumer.                      *)
(***************************************************************************)
\* Routes: "[x]/b", "a[x]/[y]", "a[x]/b", "a[x]/b[y]", "ab/b" and "[x]/[y]".
DeepPool ==
    { <<"[", "x", "]", "/", "b">>,
      <<"a", "[", "x", "]", "/", "[", "y", "]">>,
      <<"a", "[", "x", "]", "/", "b">>,
      <<"a", "[", "x", "]", "/", "b", "[", "y", "]">>,
      <<"a", "b", "/", "b">>,
      <<"[", "x", "]", "/", "[", "y", "]">> }

\* Pathnames: "ab/b", "ab/ba" and "b/b".
DeepPaths ==
    { <<"a", "b", "/", "b">>,
      <<"a", "b", "/", "b", "a">>,
      <<"b", "/", "b">> }

InitDeep ==
    /\ arg = [fn |-> "createRouter", consumers |-> 1]
    /\ ret = Pending
    /\ inputs \in Lists(DeepPool, MaxRoutes)
    /\ pc = "init"
    /\ error = NoError
    /\ routes = <<>>
    /\ trie = <<>>
    /\ cache = <<>>
    /\ heap = <<>>
    /\ enums = <<>>

NextDeep ==
    \/ CreateRouter
    \/ \E pathname \in DeepPaths : Match(pathname)
    \/ \E k \in 1..MaxEnums : NextResult(k)

SpecDeep == InitDeep /\ [][NextDeep]_vars

(***************************************************************************)
(* The pure functions, each applied to inputs drawn from a bounded set.    *)
(***************************************************************************)
InitParse ==
    /\ arg \in {[fn |-> "parse", route |-> s] : s \in Strings(Alphabet, MaxSegLen)}
    /\ ret = Pending
    /\ Idle

CallParse ==
    /\ arg.fn = "parse"
    /\ ret = Pending
    /\ ret' = parse(arg.route)
    /\ UNCHANGED <<arg, inputs, pc, error, routes, trie, cache, heap, enums>>

SpecParse == InitParse /\ [][CallParse]_vars

\* Segment patterns compiled by createMatch: "[x]", "@[x]", "[x]@", "[x]@[y]",
\* "a[x]b", "[x]ab[y]", "a@[x]", "[x]@[y]@[z]", "[x]b" and "ab".
MatchPool ==
    { <<"[", "x", "]">>,
      <<"[", "x", "]", "b">>,
      <<"a", "b">>,
      <<"@", "[", "x", "]">>,
      <<"[", "x", "]", "@">>,
      <<"[", "x", "]", "@", "[", "y", "]">>,
      <<"a", "[", "x", "]", "b">>,
      <<"[", "x", "]", "a", "b", "[", "y", "]">>,
      <<"a", "@", "[", "x", "]">>,
      <<"[", "x", "]", "@", "[", "y", "]", "@", "[", "z", "]">> }

\* The characters of the pathname segments given to a Matcher.
InputAlphabet == {"a", "b", "@"}

InitMatch ==
    /\ arg \in {[fn |-> "createMatch", path |-> parse(p).path, pathname |-> s] :
                   p \in MatchPool, s \in Strings(InputAlphabet, MaxInputLen)}
    /\ ret = Pending
    /\ Idle

CallMatch ==
    /\ arg.fn = "createMatch"
    /\ ret = Pending
    /\ ret' = createMatch(arg.path, arg.pathname)
    /\ UNCHANGED <<arg, inputs, pc, error, routes, trie, cache, heap, enums>>

SpecMatch == InitMatch /\ [][CallMatch]_vars

\* Routes given to buildRoutes: "a", "ab", "b", "a[x]", "a[y]", "[x]", "[x]a",
\* "", "a/b", "a/[x]", "[y]/a" and "/".
SortPool ==
    { <<"a">>,
      <<"a", "b">>,
      <<"b">>,
      <<"a", "[", "x", "]">>,
      <<"a", "[", "y", "]">>,
      <<"[", "x", "]">>,
      <<"[", "x", "]", "a">>,
      <<>>,
      <<"a", "/", "b">>,
      <<"a", "/", "[", "x", "]">>,
      <<"[", "y", "]", "/", "a">>,
      <<"/">> }

InitBuildRoutes ==
    /\ arg \in {[fn |-> "buildRoutes", inputs |-> l] : l \in Lists(SortPool, MaxRoutes)}
    /\ ret = Pending
    /\ Idle

CallBuildRoutes ==
    /\ arg.fn = "buildRoutes"
    /\ ret = Pending
    /\ ret' = buildRoutes(arg.inputs)
    /\ UNCHANGED <<arg, inputs, pc, error, routes, trie, cache, heap, enums>>

SpecBuildRoutes == InitBuildRoutes /\ [][CallBuildRoutes]_vars

(***************************************************************************)
(* The claims.                                                             *)
(***************************************************************************)
Range(f) == {f[k] : k \in DOMAIN f}

\* The position of a registered route in the order buildRoutes produced.
RouteIndex(route) == CHOOSE k \in 1..Len(routes) : routes[k].route = route

\* C1 -- Priority invariant: if two routes both appear in the output of
\* match(pathname) and R1 comes before R2 in the order produced by buildRoutes,
\* then R1's Result is yielded strictly before R2's, also when one route's
\* segment is a single literal and the other's is a literal prefix followed by
\* a parameter ("a[x]" and "ab" against "ab").
PriorityInvariant ==
    \A k \in 1..Len(enums) :
        \A p, q \in 1..Len(enums[k].out) :
            RouteIndex(enums[k].out[p].route) < RouteIndex(enums[k].out[q].route)
                => p < q

\* Whether a parsed segment has a parameter.
IsDynamic(path) == \E k \in 1..Len(path) : path[k].type = "object"

\* A route matches a pathname: the same number of segments, a static segment
\* equal to the pathname's, a dynamic segment's Matcher succeeding on it.
RouteMatches(route, pathname) ==
    LET pattern == Split(route, "/")
        paths == RouteEntry(route).paths
        segments == Split(pathname, "/")
    IN  /\ Len(pattern) = Len(segments)
        /\ \A k \in 1..Len(pattern) :
               IF IsDynamic(paths[k])
               THEN createMatch(paths[k], segments[k]).ok
               ELSE pattern[k] = segments[k]

\* C2 -- match(pathname) yields exactly one Result for each registered route
\* that matches the pathname, and nothing else: every route yielded matches and
\* is registered, none is yielded twice, and an enumeration consumed to its end
\* has yielded every matching route (none, if none matches).
MatchesExactly ==
    \A k \in 1..Len(enums) :
        LET e == enums[k] IN
        /\ \A i \in 1..Len(e.out) :
               /\ e.out[i].route \in Range(inputs)
               /\ RouteMatches(e.out[i].route, e.pathname)
        /\ \A i, j \in 1..Len(e.out) : i # j => e.out[i].route # e.out[j].route
        /\ (e.done /\ ~e.returned) =>
               \A r \in Range(inputs) :
                   RouteMatches(r, e.pathname) => \E i \in 1..Len(e.out) : e.out[i].route = r

\* An enumeration consumed to its end that yielded two routes and left out a third.
MatchesExactlyWitness ==
    \E k \in 1..Len(enums) :
        /\ enums[k].done
        /\ Len(enums[k].out) = 2
        /\ \E r \in Range(inputs) : ~RouteMatches(r, enums[k].pathname)

\* The parameter names of a route, left to right, and the texts its own
\* segments capture from the segments of a pathname.
OwnKeys(route) ==
    LET paths == RouteEntry(route).paths
    IN  Flatten([k \in 1..Len(paths) |-> PathNames(paths[k])])

OwnValues(route, segments) ==
    LET paths == RouteEntry(route).paths
    IN  Flatten([k \in 1..Len(paths) |-> createMatch(paths[k], segments[k]).params])

\* C3 -- for every Result yielded, keys is the list of parameter names of the
\* Result's own route in pattern order, values has the same length, and
\* values[i] is the text captured for the i-th parameter along that route's own
\* path (nothing captured on a sibling branch remains in it); this is so of
\* every Result yielded so far at every later state, so resuming the
\* enumeration does not alter a Result already yielded.
ResultsAreOwn ==
    \A k \in 1..Len(enums) :
        LET results == Read(enums[k].out, heap) IN
        \A i \in 1..Len(results) :
            /\ results[i].keys = OwnKeys(results[i].route)
            /\ Len(results[i].values) = Len(results[i].keys)
            /\ results[i].values = OwnValues(results[i].route, enums[k].segments)

\* "[x]/[y]" yielded with two values after the branch of "a[x]/b" was tried
\* first and rolled back, in an enumeration that was resumed to its end.
ResultsAreOwnWitness ==
    \E k \in 1..Len(enums) :
        /\ enums[k].done
        /\ enums[k].pathname = <<"a", "b", "/", "a">>
        /\ \E r \in Range(inputs) : r = <<"a", "[", "x", "]", "/", "b">>
        /\ \E i \in 1..Len(enums[k].out) :
               /\ enums[k].out[i].route = <<"[", "x", "]", "/", "[", "y", "]">>
               /\ Deref(heap, enums[k].out[i].values) = << <<"a", "b">>, <<"a">> >>

\* The trie transitions of a route: its segments' tokens with the parameter
\* names left out.
Shape(route) ==
    LET paths == RouteEntry(route).paths
    IN  [k \in 1..Len(paths) |->
            [j \in 1..Len(paths[k]) |->
                IF paths[k][j].type = "object" THEN Parameter(<<>>) ELSE paths[k][j]]]

Collide(i, j) ==
    /\ i < j
    /\ RouteOk(inputs[i])
    /\ RouteOk(inputs[j])
    /\ Shape(inputs[i]) = Shape(inputs[j])

\* C4 -- createRouter throws whenever two input patterns reduce to the same
\* trie transitions (parameter names ignored, identical patterns included); the
\* error names the later pattern of a colliding pair; and when every pattern
\* parses and no two collide, createRouter returns a router.
DuplicatesRejected ==
    pc # "init" =>
        /\ (\E i, j \in 1..Len(inputs) : Collide(i, j)) => pc = "failed"
        /\ (pc = "failed" /\ error.msg = "Route is already defined for") =>
               \E i, j \in 1..Len(inputs) : Collide(i, j) /\ error.route = inputs[j]
        /\ ((\A i \in 1..Len(inputs) : RouteOk(inputs[i]))
               /\ ~\E i, j \in 1..Len(inputs) : Collide(i, j)) => pc = "built"

\* createRouter(["[x]", ..., "[y]"]) threw, naming "[y]".
DuplicatesRejectedWitness ==
    /\ pc = "failed"
    /\ Len(inputs) >= 2
    /\ inputs[1] = <<"[", "x", "]">>
    /\ inputs[Len(inputs)] = <<"[", "y", "]">>
    /\ error.route = <<"[", "y", "]">>

\* C6 -- an empty segment of a route pattern matches only an empty pathname
\* segment at the same position, and an empty pathname segment is matched only
\* by an empty pattern segment (never by a segment with a parameter).
EmptySegments ==
    \A k \in 1..Len(enums) :
        \A i \in 1..Len(enums[k].out) :
            LET pattern == Split(enums[k].out[i].route, "/")
                segments == enums[k].segments
            IN  /\ Len(pattern) = Len(segments)
                /\ \A n \in 1..Len(pattern) : (pattern[n] = <<>>) <=> (segments[n] = <<>>)

\* With "/a" and "[x]/[y]" registered, the pathnames "/a" and "a/" were both
\* tried to the end: "/a" yielded "/a" alone.
EmptySegmentsWitness ==
    /\ {<<"/", "a">>, <<"[", "x", "]", "/", "[", "y", "]">>} \subseteq Range(inputs)
    /\ \E k \in 1..Len(enums) :
           /\ enums[k].done
           /\ enums[k].pathname = <<"/", "a">>
           /\ Len(enums[k].out) = 1
           /\ enums[k].out[1].route = <<"/", "a">>

\* The orderings of an array: the arrays with the same elements, each as often.
Orderings(l) ==
    {[k \in 1..Len(l) |-> l[f[k]]] :
        f \in {g \in [1..Len(l) -> 1..Len(l)] : \A i, j \in 1..Len(l) : g[i] = g[j] => i = j}}

IsSet(l) == \A i, j \in 1..Len(l) : l[i] = l[j] => i = j

\* C5 (as stated) -- for any set of patterns and any two orderings of it,
\* buildRoutes returns the identical sorted order, the outcome of registration
\* (success, or the error raised) is the same, and match yields the same
\* Results in the same order for every pathname.
OrderIndependent ==
    (pc # "init" /\ IsSet(inputs)) =>
        \A p \in Orderings(inputs) :
            LET r == createRouter(p) IN
            /\ buildRoutes(p).routes = buildRoutes(inputs).routes
            /\ r.built = (pc = "built")
            /\ r.error = error
            /\ \A k \in 1..Len(enums) :
                   (enums[k].done /\ r.built) =>
                       ArrayFrom(r.nodes, enums[k].pathname) = Read(enums[k].out, heap)

\* C5 (amended) -- for any set of patterns, registration succeeds for one
\* ordering exactly when it succeeds for every other; when it succeeds,
\* buildRoutes returns the identical sorted order for every ordering and match
\* yields the same Results in the same order for every pathname.
OrderIndependentWhenBuilt ==
    (pc # "init" /\ IsSet(inputs)) =>
        \A p \in Orderings(inputs) :
            LET r == createRouter(p) IN
            /\ r.built = (pc = "built")
            /\ r.built =>
                   /\ buildRoutes(p).routes = routes
                   /\ \A k \in 1..Len(enums) :
                          enums[k].done =>
                              ArrayFrom(r.nodes, enums[k].pathname) = Read(enums[k].out, heap)

\* Three routes registered in an order that is not the sorted one, and an
\* enumeration consumed to its end with two Results.
OrderIndependentWitness ==
    /\ pc = "built"
    /\ IsSet(inputs)
    /\ Len(inputs) = 3
    /\ inputs # [k \in 1..Len(routes) |-> routes[k].route]
    /\ \E k \in 1..Len(enums) : enums[k].done /\ Len(enums[k].out) >= 2

\* C7 -- enumerations of one router consumed in any interleaving, and abandoned
\* at any point: each has yielded a prefix of what it yields when consumed alone
\* from start to end, all of it once it has run to its end; the trie is the one
\* createRouter built; so a later call with the same pathname yields the same
\* sequence again.
ConsumedAlone ==
    pc = "built" =>
        /\ trie = createRouter(inputs).nodes
        /\ \A k \in 1..Len(enums) :
               LET alone == ArrayFrom(trie, enums[k].pathname)
                   got == Read(enums[k].out, heap)
               IN  /\ Len(got) <= Len(alone)
                   /\ got = SubSeq(alone, 1, Len(got))
                   /\ (enums[k].done /\ ~enums[k].returned) => got = alone

\* Two enumerations of the pathname "ab/b": the first abandoned after one
\* Result, the second consumed to its end with two Results.
ConsumedAloneWitness ==
    /\ Len(enums) = 2
    /\ enums[1].pathname = <<"a", "b", "/", "b">>
    /\ enums[2].pathname = <<"a", "b", "/", "b">>
    /\ enums[1].returned /\ Len(enums[1].out) = 1
    /\ enums[2].done /\ ~enums[2].returned /\ Len(enums[2].out) = 2

\* The segments of the route grammar, read from character i (1-based):
\* literal characters other than "[" and "]", and parameters "[" name "]" with
\* a name of one or more letters or digits, no parameter right after another.
RECURSIVE InGrammarFrom(_, _, _)
InGrammarFrom(s, i, afterParameter) ==
    IF i > Len(s) THEN TRUE
    ELSE IF s[i] = "]" THEN FALSE
    ELSE IF s[i] = "[" THEN
        /\ ~afterParameter
        /\ \E j \in (i + 2)..Len(s) :
               /\ s[j] = "]"
               /\ \A n \in (i + 1)..(j - 1) : IsNameChar(s[n])
               /\ InGrammarFrom(s, j + 1, TRUE)
    ELSE InGrammarFrom(s, i + 1, FALSE)

InGrammar(s) == InGrammarFrom(s, 1, FALSE)

\* C8 -- parse accepts exactly the segments of the route grammar and rejects
\* every other segment with an error that carries a character index; every
\* Segment Path returned has no two adjacent Parameter tokens, no two adjacent
\* literal tokens and no empty literal token.
ParseFollowsGrammar ==
    ret # Pending =>
        /\ ret.ok <=> InGrammar(arg.route)
        /\ ~ret.ok => ret.at \in 0..Len(arg.route)
        /\ ret.ok =>
               /\ \A k \in 1..(Len(ret.path) - 1) : ret.path[k].type # ret.path[k + 1].type
               /\ \A k \in 1..Len(ret.path) : ret.path[k].text # <<>>

\* How many of the first k tokens of a path are parameters.
ParamOrdinal(path, k) == Cardinality({j \in 1..k : path[j].type = "object"})

\* The offset in the input where token k (1-based) starts, given the values
\* captured by the parameters before it.
RECURSIVE OffsetAt(_, _, _)
OffsetAt(path, values, k) ==
    IF k = 1 THEN 0
    ELSE OffsetAt(path, values, k - 1)
         + (IF path[k - 1].type = "string"
            THEN Len(path[k - 1].text)
            ELSE Len(values[ParamOrdinal(path, k - 1)]))

\* The literal L occurs in s at offset q (0-based).
Occurs(s, L, q) == Slice(s, q, q + Len(L)) = L

\* C9 -- parameter extent rule.  When the Matcher succeeds, each captured value
\* is non-empty; a last parameter's value is the remainder of the input from
\* the current offset; the value of a parameter followed by a literal L is the
\* text from the current offset to the leftmost occurrence of L at or after it,
\* so it does not contain L.  The Matcher fails when the input is exhausted at
\* a parameter, when L does not occur in the rest of the input, and when L
\* occurs at the current offset, whether or not L occurs again later.
ExtentRule ==
    ret # Pending =>
        LET path == arg.path
            s == arg.pathname
            m == Len(path)
            parameters == {k \in 1..m : path[k].type = "object"}
        IN
        /\ ret.ok =>
               /\ Len(ret.params) = Cardinality(parameters)
               /\ \A k \in parameters :
                      LET v == ret.params[ParamOrdinal(path, k)]
                          offset == OffsetAt(path, ret.params, k)
                      IN  /\ v # <<>>
                          /\ k = m => v = SliceFrom(s, offset)
                          /\ k < m =>
                                 LET L == path[k + 1].text IN
                                 /\ v = Slice(s, offset, offset + Len(v))
                                 /\ Occurs(s, L, offset + Len(v))
                                 /\ \A q \in offset..(offset + Len(v) - 1) : ~Occurs(s, L, q)
                                 /\ \A q \in 0..Len(v) : ~Occurs(v, L, q)
        /\ \A k \in parameters :
               \* the tokens before the parameter, matched on their own
               LET before == IF k = 1 THEN MatchOk(<<>>)
                             ELSE createMatch(SubSeq(path, 1, k - 1), s)
                   offset == OffsetAt(path, before.params, k)
               IN  before.ok =>
                       /\ offset = Len(s) => ~ret.ok
                       /\ k < m =>
                              LET L == path[k + 1].text IN
                              /\ (\A q \in offset..Len(s) : ~Occurs(s, L, q)) => ~ret.ok
                              /\ Occurs(s, L, offset) => ~ret.ok

\* "[x]@[y]" on "a@b@a" captured "a" and "b@a": the first "@" delimits.
ExtentRuleWitness ==
    /\ ret # Pending
    /\ arg.fn = "createMatch"
    /\ arg.path = <<Parameter(<<"x">>), StringPart(<<"@">>), Parameter(<<"y">>)>>
    /\ arg.pathname = <<"a", "@", "b", "@", "a">>
    /\ ret = MatchOk(<< <<"a">>, <<"b", "@", "a">> >>)

\* a sorts before b as strings: at the first difference a has ended or has the
\* smaller code unit.
LexLess(a, b) ==
    \E n \in 1..Len(b) :
        /\ \A i \in 1..(n - 1) : i <= Len(a) /\ a[i] = b[i]
        /\ n - 1 <= Len(a)
        /\ (n > Len(a) \/ CharCode(a[n]) < CharCode(b[n]))

\* The tokens of all the segments of a route, each with its segment number and
\* its position in the segment.
TokenAt(paths, i, j) == IF j <= Len(paths[i]) THEN paths[i][j] ELSE [type |-> "undefined", text |-> <<>>]

Differ(s, t) == s.type # t.type \/ (s.type = "string" /\ s.text # t.text)

\* The ordering rules: -1 when a comes first, 1 when b does, 0 when they are
\* equal; 2 where the routes first differ by one segment's tokens ending, which
\* the rules leave open.
RuleOrder(a, b) ==
    IF Len(a) # Len(b) THEN (IF Len(a) < Len(b) THEN -1 ELSE 1)
    ELSE LET positions == {x \in UNION {{<<i, j>> : j \in 1..Max(Len(a[i]), Len(b[i]))} :
                                             i \in 1..Len(a)} :
                              Differ(TokenAt(a, x[1], x[2]), TokenAt(b, x[1], x[2]))}
         IN  IF positions = {} THEN 0
             ELSE LET first == CHOOSE x \in positions :
                                  \A y \in positions :
                                      x[1] < y[1] \/ (x[1] = y[1] /\ x[2] <= y[2])
                      s == TokenAt(a, first[1], first[2])
                      t == TokenAt(b, first[1], first[2])
                  IN  IF s.type = "undefined" \/ t.type = "undefined" THEN 2
                      ELSE IF s.type = "string" /\ t.type = "object" THEN -1
                      ELSE IF s.type = "object" /\ t.type = "string" THEN 1
                      ELSE IF LexLess(s.text, t.text) THEN -1 ELSE 1

Sign(n) == IF n < 0 THEN -1 ELSE IF n > 0 THEN 1 ELSE 0

\* C10 -- buildRoutes returns a permutation of its input; the comparison it
\* sorts by follows the rules (fewer segments first; then, at the first
\* differing token, a literal before a Parameter and literals lexicographic;
\* Parameters equal whatever their names) and is antisymmetric and transitive,
\* also when one token list is a prefix of the other; the output is in
\* non-decreasing order, and routes that compare equal keep their input order.
SortedByRules ==
    (ret # Pending /\ ret.ok) =>
        LET inp == arg.inputs
            out == ret.routes
            n == Len(inp)
            P(k) == RouteEntry(inp[k]).paths
        IN
        /\ Len(out) = n
        /\ \A r \in Range(inp) :
               Cardinality({k \in 1..n : inp[k] = r}) = Cardinality({k \in 1..n : out[k].route = r})
        /\ \A k \in 1..n : out[k] = RouteEntry(out[k].route)
        /\ \A i, j \in 1..n :
               /\ RuleOrder(P(i), P(j)) # 2 => Sign(compare(P(i), P(j))) = RuleOrder(P(i), P(j))
               /\ Sign(compare(P(i), P(j))) = 0 - Sign(compare(P(j), P(i)))
               /\ \A k \in 1..n :
                      (compare(P(i), P(j)) <= 0 /\ compare(P(j), P(k)) <= 0)
                          => compare(P(i), P(k)) <= 0
        /\ \A i, j \in 1..n : i < j => compare(out[i].paths, out[j].paths) <= 0
        /\ \A r \in Range(inp) :
               LET same(x) == compare(RouteEntry(x).paths, RouteEntry(r).paths) = 0
               IN  SelectSeq([k \in 1..n |-> out[k].route], same) = SelectSeq(inp, same)

\* buildRoutes(["a[y]", "[x]a", "a[x]"]) returned "a[y]", "a[x]", "[x]a": the
\* two routes that compare equal kept their input order, before the route that
\* starts with a parameter.
SortedByRulesWitness ==
    /\ ret # Pending
    /\ arg.fn = "buildRoutes"
    /\ arg.inputs = << <<"a", "[", "y", "]">>, <<"[", "x", "]", "a">>, <<"a", "[", "x", "]">> >>
    /\ [k \in 1..Len(ret.routes) |-> ret.routes[k].route]
           = << <<"a", "[", "y", "]">>, <<"a", "[", "x", "]">>, <<"[", "x", "]", "a">> >>

\* A token written back as text: a literal as its text, a Parameter as
\* "[" + name + "]".
TokenText(token) ==
    IF token.type = "string" THEN token.text
    ELSE <<"[">> \o token.text \o <<"]">>

\* The tokens of a Segment Path written back in order and concatenated.
Serialize(path) == Flatten([k \in 1..Len(path) |-> TokenText(path[k])])

\* C11 -- parser round trip.  For every segment on which parse succeeds, the
\* returned tokens written back in order, each literal as its text and each
\* Parameter as "[" + name + "]", give the original segment exactly.
ParseRoundTrip ==
    (ret # Pending /\ ret.ok) => Serialize(ret.path) = arg.route

\* "a@[x]" parsed to the literal "a@" and the parameter x, and written back.
ParseRoundTripWitness ==
    /\ ret # Pending
    /\ arg.fn = "parse"
    /\ arg.route = <<"a", "@", "[", "x", "]">>
    /\ ret = ParseOk(<<StringPart(<<"a", "@">>), Parameter(<<"x">>)>>)
    /\ Serialize(ret.path) = arg.route

\* The child of the trie a route goes through at depth d: its first d
\* transitions.  Two routes share the child exactly when these are equal.
ChildAt(route, d) == SubSeq(Shape(route), 1, d)

\* The first depth at which two routes of as many segments go to different
\* children of one node.
Fork(r1, r2) ==
    CHOOSE d \in 1..Len(Shape(r1)) :
        /\ ChildAt(r1, d) # ChildAt(r2, d)
        /\ ChildAt(r1, d - 1) = ChildAt(r2, d - 1)

\* When a child was inserted: the position, in the order of registration, of
\* the first route that goes through it.
InsertedAt(child) ==
    CHOOSE k \in 1..Len(routes) :
        /\ ChildAt(routes[k].route, Len(child)) = child
        /\ \A j \in 1..(k - 1) : ChildAt(routes[j].route, Len(child)) # child

\* C12 -- enumeration order is the depth-first discovery order of the trie at
\* every depth.  Of two Results of one enumeration, the one yielded first is,
\* at the node where their routes part, the one reached through the static
\* child, or else both are reached through dynamic children and the one
\* yielded first is reached through the child inserted first (the sorted
\* registration order); and all Results under one child are yielded before
\* any Result under the next child.
DepthFirstOrder ==
    \A k \in 1..Len(enums) :
        LET out == enums[k].out IN
        /\ \A p, q \in 1..Len(out) :
               p < q =>
                   LET r1 == out[p].route
                       r2 == out[q].route
                       d == Fork(r1, r2)
                   IN  /\ Len(Shape(r1)) = Len(Shape(r2))
                       /\ Shape(r1) # Shape(r2)
                       /\ IsDynamic(Shape(r2)[d])
                       /\ IsDynamic(Shape(r1)[d]) =>
                              InsertedAt(ChildAt(r1, d)) < InsertedAt(ChildAt(r2, d))
        /\ \A p, q, r \in 1..Len(out) :
               (p < q /\ q < r) =>
                   \A d \in 1..Len(enums[k].segments) :
                       ChildAt(out[p].route, d) = ChildAt(out[r].route, d)
                           => ChildAt(out[q].route, d) = ChildAt(out[p].route, d)

\* Routes "[x]/b", "a[x]/[y]" and "a[x]/b" on "ab/b": "a[x]/b" was yielded,
\* then "a[x]/[y]", then "[x]/b".
DepthFirstOrderWitness ==
    \E k \in 1..Len(enums) :
        /\ inputs = << <<"[", "x", "]", "/", "b">>,
                       <<"a", "[", "x", "]", "/", "[", "y", "]">>,
                       <<"a", "[", "x", "]", "/", "b">> >>
        /\ enums[k].pathname = <<"a", "b", "/", "b">>
        /\ enums[k].done
        /\ [i \in 1..Len(enums[k].out) |-> enums[k].out[i].route]
               = << <<"a", "[", "x", "]", "/", "b">>,
                    <<"a", "[", "x", "]", "/", "[", "y", "]">>,
                    <<"[", "x", "]", "/", "b">> >>

\* The text a Segment Path stands for once its parameters are given values:
\* the literal tokens and the values, in token order, concatenated.
Fill(path, values) ==
    Flatten([k \in 1..Len(path) |->
                IF path[k].type = "string" THEN path[k].text
                ELSE values[ParamOrdinal(path, k)]])

\* C13 -- a Matcher consumes the whole input segment.  For every non-empty
\* Segment Path and every input on which its Matcher succeeds, the input is
\* the concatenation in token order of the literal tokens and the captured
\* values, so that no input text is left over after the last token.
MatcherConsumesInput ==
    (ret # Pending /\ arg.path # <<>> /\ ret.ok) =>
        /\ Len(ret.params) = ParamOrdinal(arg.path, Len(arg.path))
        /\ arg.pathname = Fill(arg.path, ret.params)

====
